---- MODULE Spec2Model ----
(***************************************************************************)
(* A model of cplot (src/src/cplot/main.py): get_srgb1, its magnitude      *)
(* scaling abs_scaling, and plot with its contour masking loop.            *)
(*                                                                         *)
(* Numbers.  Real quantities are exact rationals <<n, d>> (d > 0, lowest   *)
(* terms).  Angles are rational multiples of pi, so Pi is <<1, 1>>.        *)
(* Display channel values are integers in thousandths (1.0 is 1000).       *)
(* Complex samples are lattice points [re, im, imneg] lying on one of the  *)
(* eight directions k*pi/4 (or the origin), where arctan2 is exact; imneg  *)
(* is the sign bit of the imaginary part, which decides between +pi and    *)
(* -pi on the negative real axis.  Zero real parts are +0.                 *)
(***************************************************************************)
EXTENDS Integers, Sequences, FiniteSets, TLC

VARIABLES scal, srgb, pc, args, Z, fZ, img, events, absSegs, argSegs, extracted, err

vars == <<scal, srgb, pc, args, Z, fZ, img, events, absSegs, argSegs, extracted, err>>

plotVars == <<pc, args, Z, fZ, img, events, absSegs, argSegs, extracted, err>>

(***************************************************************************)
(* Bounds of the model.                                                    *)
(***************************************************************************)
\* numerators and denominators of the magnitudes given to abs_scaling
MaxNum == 4
\* largest exponent alpha tried (alpha ranges over -1 .. MaxAlpha)
MaxAlpha == 3
\* largest exponent alpha given to get_srgb1 (alpha ranges over -1 .. MaxSrgbAlpha)
MaxSrgbAlpha == 1
\* largest coordinate of a sample handed to get_srgb1
MaxCoord == 2
\* most points the isoline extractor returns for one contour call
MaxPts == 2

(***************************************************************************)
(* Exact rational arithmetic, standing for the float arithmetic of the     *)
(* source.                                                                 *)
(***************************************************************************)
IAbs(n) == IF n < 0 THEN -n ELSE n

RECURSIVE GCD(_, _)
GCD(a, b) == IF b = 0 THEN a ELSE GCD(b, a % b)

RNorm(n, d) ==
    LET g == GCD(IAbs(n), d) IN <<n \div g, d \div g>>

RInt(n) == <<n, 1>>

RAdd(a, b) == RNorm(a[1] * b[2] + b[1] * a[2], a[2] * b[2])

RNeg(a) == <<-a[1], a[2]>>

RSub(a, b) == RAdd(a, RNeg(b))

\* cross-reduced before multiplying, so that intermediate products stay small
RMul(a, b) ==
    LET g1 == GCD(IAbs(a[1]), b[2])
        g2 == GCD(IAbs(b[1]), a[2])
    IN  <<(a[1] \div g1) * (b[1] \div g2), (a[2] \div g2) * (b[2] \div g1)>>

\* b # 0
RDiv(a, b) ==
    IF b[1] > 0 THEN RMul(a, <<b[2], b[1]>>) ELSE RMul(a, <<-b[2], -b[1]>>)

RAbs(a) == <<IAbs(a[1]), a[2]>>

RLess(a, b) == a[1] * b[2] < b[1] * a[2]

RLeq(a, b) == a[1] * b[2] <= b[1] * a[2]

\* numpy.mod for a positive integer modulus m: the result has the sign of m
RMod(a, m) == RNorm(a[1] % (m * a[2]), a[2])

RECURSIVE IPow(_, _)
IPow(b, e) == IF e = 0 THEN 1 ELSE b * IPow(b, e - 1)

\* r ** alpha for a rational r >= 0 and an integer alpha >= 0; 0 ** 0 is 1
RPow(r, alpha) == <<IPow(r[1], alpha), IPow(r[2], alpha)>>

Zero == RInt(0)
Half == <<1, 2>>
Rat1 == RInt(1)
Pi == RInt(1)

(***************************************************************************)
(* get_srgb1.abs_scaling: l(r) = r^a / (r^a + 1).                          *)
(***************************************************************************)
abs_scaling_plus2(r, alpha) == RDiv(RPow(r, alpha), RAdd(RPow(r, alpha), RInt(2)))

abs_scaling_complement(r, alpha) == RDiv(Rat1, RAdd(RPow(r, alpha), Rat1))

abs_scaling(r, alpha) == RDiv(RPow(r, alpha), RAdd(RPow(r, alpha), Rat1))

(***************************************************************************)
(* Complex samples and the numpy functions get_srgb1 and plot apply to     *)
(* them.                                                                   *)
(***************************************************************************)
Cx(re, im) == [re |-> re, im |-> im, imneg |-> im < 0]

\* re - 0j: a real number whose imaginary part is the negative zero
CxNegZero(re) == [re |-> re, im |-> 0, imneg |-> TRUE]

\* numpy.arctan2(z.imag, z.real) as a multiple of pi, exact on the eight
\* directions; no other sample is given a value
arctan2(z) ==
    CASE z.im = 0 /\ z.re >= 0 -> Zero
      [] z.im = 0 /\ z.re < 0 -> IF z.imneg THEN RInt(-1) ELSE RInt(1)
      [] z.re = 0 /\ z.im > 0 -> <<1, 2>>
      [] z.re = 0 /\ z.im < 0 -> <<-1, 2>>
      [] z.re > 0 /\ z.im = z.re -> <<1, 4>>
      [] z.re > 0 /\ z.im = -z.re -> <<-1, 4>>
      [] z.re < 0 /\ z.im = -z.re -> <<3, 4>>
      [] z.re < 0 /\ z.im = z.re -> <<-3, 4>>

\* numpy.abs(z), exact where the modulus is an integer
np_abs(z) ==
    RInt(CHOOSE k \in 0..(IAbs(z.re) + IAbs(z.im)) : k * k = z.re * z.re + z.im * z.im)

(***************************************************************************)
(* The colour-space selector: a string is a sequence of characters, and    *)
(* str.upper maps each lower-case letter to its capital.                   *)
(***************************************************************************)
LowerLetters ==
    <<"a", "b", "c", "d", "e", "f", "g", "h", "i", "j", "k", "l", "m",
      "n", "o", "p", "q", "r", "s", "t", "u", "v", "w", "x", "y", "z">>

UpperLetters ==
    <<"A", "B", "C", "D", "E", "F", "G", "H", "I", "J", "K", "L", "M",
      "N", "O", "P", "Q", "R", "S", "T", "U", "V", "W", "X", "Y", "Z">>

upper_char(c) ==
    IF \E i \in DOMAIN LowerLetters : LowerLetters[i] = c
    THEN UpperLetters[CHOOSE i \in DOMAIN LowerLetters : LowerLetters[i] = c]
    ELSE c

lower_char(c) ==
    IF \E i \in DOMAIN UpperLetters : UpperLetters[i] = c
    THEN LowerLetters[CHOOSE i \in DOMAIN UpperLetters : UpperLetters[i] = c]
    ELSE c

upper_identity(s) == s

upper(s) == [i \in DOMAIN s |-> upper_char(s[i])]

CAM16 == <<"C", "A", "M", "1", "6">>
CIELAB == <<"C", "I", "E", "L", "A", "B">>
OKLAB == <<"O", "K", "L", "A", "B">>
HSL == <<"H", "S", "L">>

(***************************************************************************)
(* Constants of the colour-space branches of get_srgb1.                    *)
(***************************************************************************)
cam16_r0 == RInt(25)
cam16_offset == RNorm(916708, 1000000)
cam16_lightness == RInt(100)
cielab_r0 == RInt(45)
cielab_offset == RNorm(8936868, 10000000)
cielab_lightness == RInt(100)
oklab_r0 == <<1, 2>>
oklab_offset == RNorm(8936868, 10000000)
max_lightness == RNorm(464158795, 100000000)
hsl_offset == RInt(120)

\* rd = r0 - r0 * 2 * abs(absval_scaled - 0.5)
chroma_radius_unscaled(r0, s) == RSub(r0, RMul(r0, RAbs(RSub(s, Half))))

chroma_radius(r0, s) ==
    RSub(r0, RMul(RMul(r0, RInt(2)), RAbs(RSub(s, Half))))

\* the point [L, rd*cos(phi), rd*sin(phi)] of a perceptual space, kept as
\* (L, rd, phi) with phi = angle + offset in multiples of pi
bicone_pt(lightness, r0, offset, s, angle) ==
    [L |-> RMul(lightness, s),
     rd |-> chroma_radius(r0, s),
     phi |-> RAdd(angle, offset)]

\* cam_pts (lines 84-91) and lab_pts (lines 113-120, 147-154) of a branch
lab_pts(branch, absval_scaled, angle) ==
    [i \in DOMAIN absval_scaled |->
        CASE branch = "CAM16" ->
               bicone_pt(cam16_lightness, cam16_r0, cam16_offset, absval_scaled[i], angle[i])
          [] branch = "CIELAB" ->
               bicone_pt(cielab_lightness, cielab_r0, cielab_offset, absval_scaled[i], angle[i])
          [] branch = "OKLAB" ->
               bicone_pt(max_lightness, oklab_r0, oklab_offset, absval_scaled[i], angle[i])]

\* np.mod(angle / (2 * np.pi) * 360 + offset, 360)
hsl_hue_no_offset(angle) == RMod(RMul(RDiv(angle, RInt(2)), RInt(360)), 360)

hsl_hue(angle) ==
    RMod(RAdd(RMul(RDiv(angle, RInt(2)), RInt(360)), hsl_offset), 360)

hsl_pt(s, angle) == [H |-> hsl_hue(angle), S |-> Rat1, L |-> s]

(***************************************************************************)
(* Display values, in thousandths.  What colorio's to_rgb1 returns for a   *)
(* colour-space point is outside this repository: it is an input, dec.     *)
(***************************************************************************)
\* srgb_vals *= 1.1
times_1_1(v) == (v * 11) \div 10

\* srgb_vals[srgb_vals > 1] = 1.0
clip_high(v) == IF v > 1000 THEN 1000 ELSE v

\* srgb_vals[srgb_vals < 0] = 0.0
clip_low(v) == IF v < 0 THEN 0 ELSE v

clip(v) == clip_low(clip_high(v))

cam16_clip_only(dec) ==
    [i \in DOMAIN dec |-> [c \in DOMAIN dec[i] |-> clip(dec[i][c])]]

\* lines 93-98: the CAM16 values are multiplied by 1.1, then cut off
cam16_srgb_vals(dec) ==
    [i \in DOMAIN dec |-> [c \in DOMAIN dec[i] |-> clip(times_1_1(dec[i][c]))]]

\* lines 122-126 and 156-160: CIELAB and OKLAB values are only cut off
lab_srgb_vals(dec) ==
    [i \in DOMAIN dec |-> [c \in DOMAIN dec[i] |-> clip(dec[i][c])]]

\* lines 175-177: HSL values are only cut off below 0
hsl_srgb_vals(dec) ==
    [i \in DOMAIN dec |-> [c \in DOMAIN dec[i] |-> clip_low(dec[i][c])]]

Failure(what) ==
    [status |-> what, branch |-> "none", angle |-> <<>>, absval_scaled |-> <<>>,
     lab_pts |-> <<>>, hsl_vals |-> <<>>, decoded |-> <<>>, srgb_vals |-> <<>>]

\* get_srgb1(z, alpha, colorspace), given the values dec that colorio decodes
get_srgb1(z, alpha, colorspace, dec) ==
    IF ~(alpha >= 0) THEN Failure("alpha")
    ELSE
    LET angle == [i \in DOMAIN z |-> arctan2(z[i])]
        absval_scaled == [i \in DOMAIN z |-> abs_scaling(np_abs(z[i]), alpha)]
        Ok(branch, lab, hsl, vals) ==
            [status |-> "ok", branch |-> branch, angle |-> angle,
             absval_scaled |-> absval_scaled, lab_pts |-> lab, hsl_vals |-> hsl,
             decoded |-> dec, srgb_vals |-> vals]
    IN  IF upper(colorspace) = CAM16
        THEN Ok("CAM16", lab_pts("CAM16", absval_scaled, angle), <<>>,
                cam16_srgb_vals(dec))
        ELSE IF upper(colorspace) = CIELAB
        THEN Ok("CIELAB", lab_pts("CIELAB", absval_scaled, angle), <<>>,
                lab_srgb_vals(dec))
        ELSE IF upper(colorspace) = OKLAB
        THEN Ok("OKLAB", lab_pts("OKLAB", absval_scaled, angle), <<>>,
                lab_srgb_vals(dec))
        ELSE IF ~(upper(colorspace) = HSL) THEN Failure("colorspace")
        ELSE Ok("HSL", <<>>, [i \in DOMAIN absval_scaled |->
                                 hsl_pt(absval_scaled[i], angle[i])],
                hsl_srgb_vals(dec))

(***************************************************************************)
(* Specification SpecScale: the scaling of get_srgb1 applied to an array   *)
(* of magnitudes (r, 1/r), or (0).                                         *)
(***************************************************************************)
Magnitudes == {RNorm(p, q) : p \in 0..MaxNum, q \in 1..MaxNum}

ScaleAlphas == -1..MaxAlpha

ScalIdle == [pc |-> "idle"]

SrgbIdle == [pc |-> "idle"]

PlotIdle ==
    /\ pc = "idle"
    /\ args = <<>>
    /\ Z = <<>>
    /\ fZ = <<>>
    /\ img = <<>>
    /\ events = <<>>
    /\ absSegs = <<>>
    /\ argSegs = <<>>
    /\ extracted = <<>>
    /\ err = "none"

InitScale ==
    /\ \E r \in Magnitudes, alpha \in ScaleAlphas :
          scal = [pc |-> "call", alpha |-> alpha,
                  r |-> IF r = Zero THEN <<r>> ELSE <<r, RDiv(Rat1, r)>>,
                  absval_scaled |-> <<>>]
    /\ srgb = SrgbIdle
    /\ PlotIdle

\* lines 10 and 55: assert alpha >= 0, then absval_scaled = abs_scaling(np.abs(z))
Scale ==
    /\ scal.pc = "call"
    /\ IF scal.alpha >= 0
       THEN scal' = [scal EXCEPT !.pc = "returned",
                         !.absval_scaled = [i \in DOMAIN scal.r |->
                                               abs_scaling(scal.r[i], scal.alpha)]]
       ELSE scal' = [scal EXCEPT !.pc = "AssertionError"]
    /\ UNCHANGED <<srgb, plotVars>>

SpecScale == InitScale /\ [][Scale]_vars

(***************************************************************************)
(* Specifications SpecSrgb and SpecSel: one call of get_srgb1 on an array  *)
(* of one sample.  SpecSrgb varies the sample, alpha and the decoded       *)
(* values; SpecSel varies the spelling of the selector.                    *)
(***************************************************************************)
Samples ==
    {Cx(re, 0) : re \in -MaxCoord..MaxCoord}
      \cup {CxNegZero(re) : re \in -MaxCoord..MaxCoord}
      \cup {Cx(0, im) : im \in (-MaxCoord..MaxCoord) \ {0}}

SrgbAlphas == -1..MaxSrgbAlpha

\* values colorio may decode for a channel: below 0, inside [0, 1], inside
\* [0, 1] but above 1 once multiplied by 1.1, and above 1
ConvVals == {-200, 500, 950, 1200}

Decodings(n) == [1..n -> [1..3 -> ConvVals]]

\* every way of writing a name in upper and lower case
Spellings(name) ==
    {[i \in DOMAIN name |-> IF i \in low THEN lower_char(name[i]) ELSE name[i]] :
        low \in SUBSET DOMAIN name}

OtherSelectors ==
    {<<>>, <<"R", "G", "B">>, <<"h", "s", "v">>, <<"C", "A", "M">>,
     <<"c", "a", "m", "1", "6", " ">>, <<"l", "a", "b">>, <<"H", "S", "L", "A">>}

SomeSelectors ==
    {CAM16, <<"c", "i", "e", "l", "a", "b">>, <<"O", "k", "L", "a", "b">>,
     <<"h", "s", "l">>, <<"R", "G", "B">>}

AllSelectors ==
    Spellings(CAM16) \cup Spellings(CIELAB) \cup Spellings(OKLAB)
      \cup Spellings(HSL) \cup OtherSelectors

\* the spellings of the four names, for the properties below
RecognizedSelectors ==
    Spellings(CAM16) \cup Spellings(CIELAB) \cup Spellings(OKLAB) \cup Spellings(HSL)

InitSrgb ==
    /\ \E z \in Samples, alpha \in SrgbAlphas, colorspace \in SomeSelectors :
          srgb = [pc |-> "call", z |-> <<z>>, alpha |-> alpha,
                  colorspace |-> colorspace, ret |-> <<>>]
    /\ scal = ScalIdle
    /\ PlotIdle

InitSel ==
    /\ \E colorspace \in AllSelectors :
          srgb = [pc |-> "call", z |-> <<Cx(1, 0)>>, alpha |-> 1,
                  colorspace |-> colorspace, ret |-> <<>>]
    /\ scal = ScalIdle
    /\ PlotIdle

\* a call get_srgb1(z, alpha, colorspace): it returns the colours or raises
CallGetSrgb1 ==
    /\ srgb.pc = "call"
    /\ \E dec \in Decodings(Len(srgb.z)) :
          LET ret == get_srgb1(srgb.z, srgb.alpha, srgb.colorspace, dec)
          IN  srgb' = [srgb EXCEPT
                          !.pc = IF ret.status = "ok" THEN "returned" ELSE "AssertionError",
                          !.ret = ret]
    /\ UNCHANGED <<scal, plotVars>>

SpecSrgb == InitSrgb /\ [][CallGetSrgb1]_vars

SpecSel == InitSel /\ [][CallGetSrgb1]_vars

(***************************************************************************)
(* Specification SpecBicone: the bicone mapping of a perceptual branch     *)
(* applied to the scaled magnitudes (s, 1 - s) at one angle.               *)
(***************************************************************************)
UnitMagnitudes == {m \in Magnitudes : RLeq(m, Rat1)}

Angles == {<<-1, 1>>, <<-1, 2>>, <<0, 1>>, <<1, 4>>, <<1, 1>>}

PerceptualBranches == {"CAM16", "CIELAB", "OKLAB"}

InitBicone ==
    /\ \E s \in UnitMagnitudes, a \in Angles, branch \in PerceptualBranches :
          srgb = [pc |-> "bicone", branch |-> branch,
                  absval_scaled |-> <<s, RSub(Rat1, s)>>, angle |-> <<a, a>>,
                  lab_pts |-> <<>>]
    /\ scal = ScalIdle
    /\ PlotIdle

\* lines 84-91, 113-120, 147-154: the colour-space points of the branch
BiconeMap ==
    /\ srgb.pc = "bicone"
    /\ srgb' = [srgb EXCEPT !.pc = "mapped",
                             !.lab_pts = lab_pts(srgb.branch, srgb.absval_scaled, srgb.angle)]
    /\ UNCHANGED <<scal, plotVars>>

SpecBicone == InitBicone /\ [][BiconeMap]_vars

(***************************************************************************)
(* plot.  The user's function f is one of four maps that keep the eight    *)
(* directions; the sign of a zero imaginary part follows IEEE arithmetic.  *)
(***************************************************************************)
Fs == {"id", "conj", "times_i", "square"}

Xor(a, b) == (a /\ ~b) \/ (~a /\ b)

\* f(z) for the user's function f
Apply(f, z) ==
    CASE f = "id" -> z
      [] f = "conj" ->
           [re |-> z.re, im |-> -z.im,
            imneg |-> IF z.im = 0 THEN ~z.imneg ELSE -z.im < 0]
      [] f = "times_i" -> [re |-> -z.im, im |-> z.re, imneg |-> z.re < 0]
      [] f = "square" ->
           [re |-> z.re * z.re - z.im * z.im, im |-> 2 * z.re * z.im,
            imneg |-> IF z.re * z.im # 0 THEN z.re * z.im < 0
                      ELSE Xor(z.re < 0, z.imneg)]

\* a rational that is a whole number, as that number
ToInt(r) == CASE r[2] = 1 -> r[1]

\* np.linspace(a, b, num)
linspace(a, b, num) ==
    [i \in 1..num |->
        IF num = 1 THEN a
        ELSE RAdd(a, RDiv(RMul(RInt(i - 1), RSub(b, a)), RInt(num - 1)))]

\* _get_z_grid: the pixel centres, row-major (ny rows of nx samples)
get_z_grid(xminmax, yminmax, n) ==
    LET nx == n[1]
        ny == n[2]
        hx == RDiv(RInt(xminmax[2] - xminmax[1]), RInt(nx))
        x == linspace(RAdd(RInt(xminmax[1]), RDiv(hx, RInt(2))),
                      RSub(RInt(xminmax[2]), RDiv(hx, RInt(2))), nx)
        hy == RDiv(RInt(yminmax[2] - yminmax[1]), RInt(ny))
        y == linspace(RAdd(RInt(yminmax[1]), RDiv(hy, RInt(2))),
                      RSub(RInt(yminmax[2]), RDiv(hy, RInt(2))), ny)
    IN  [k \in 1..(nx * ny) |->
            Cx(ToInt(x[((k - 1) % nx) + 1]), ToInt(y[((k - 1) \div nx) + 1]))]

\* lines 194-195
bounds_ok_x_only(xminmax, yminmax) == xminmax[1] < xminmax[2]

bounds_ok(xminmax, yminmax) == xminmax[1] < xminmax[2] /\ yminmax[1] < yminmax[2]

\* lines 197-203: n is a pair (nx, ny) or one integer
grid_shape(n) == IF n.tuple THEN <<n.v[1], n.v[2]>> ELSE <<n.v[1], n.v[1]>>

\* line 230, in multiples of pi
levels == <<(<<-1, 2>>), Zero, (<<1, 2>>)>>

\* line 226
abs_levels == <<(<<1, 10>>), RInt(100)>>

\* lines 243-245
is_false_leq(angle, level) ==
    \/ RLeq(RAbs(RSub(angle, Pi)), RAbs(RSub(angle, level)))
    \/ RLeq(RAbs(RAdd(angle, Pi)), RAbs(RSub(angle, level)))

is_false(angle, level) ==
    \/ RLess(RAbs(RSub(angle, Pi)), RAbs(RSub(angle, level)))
    \/ RLess(RAbs(RAdd(angle, Pi)), RAbs(RSub(angle, level)))

Pt(x, y) == [x |-> x, y |-> y, nan |-> FALSE]

\* a row of a segment after segment[is_false] = np.nan
NaNPt == [x |-> 0, y |-> 0, nan |-> TRUE]

\* lines 240-246 for one segment: z = x + 1j * y, angle = np.angle(f(z))
mask_segment(f, level, segment) ==
    [k \in DOMAIN segment |->
        IF segment[k].nan THEN segment[k]
        ELSE IF is_false(arctan2(Apply(f, Cx(segment[k].x, segment[k].y))), level)
        THEN NaNPt
        ELSE segment[k]]

\* lines 238-246: every segment of every level
mask_allsegs(f, allsegs) ==
    [l \in DOMAIN allsegs |->
        [j \in DOMAIN allsegs[l] |-> mask_segment(f, levels[l], allsegs[l][j])]]

\* lines 220 and 229
wants_contour_arg_either(a) == a.contour_arg \/ a.contour_abs

wants_contour_arg(a) == a.contour_arg

(***************************************************************************)
(* What matplotlib's contour returns is outside this repository: for each  *)
(* level at most one polyline, a run of neighbouring lattice points around *)
(* the origin, with at most MaxPts points over all levels.                 *)
(***************************************************************************)
Path ==
    <<Pt(1, 0), Pt(1, 1), Pt(0, 1), Pt(-1, 1), Pt(-1, 0), Pt(-1, -1), Pt(0, -1), Pt(1, -1)>>

Window(start, len) == [k \in 1..len |-> Path[((start + k - 2) % Len(Path)) + 1]]

RECURSIVE SumTo(_, _)
SumTo(fn, n) == IF n = 0 THEN 0 ELSE fn[n] + SumTo(fn, n - 1)

Extractions(nlev, starts) ==
    {[l \in 1..nlev |-> IF lens[l] = 0 THEN <<>> ELSE <<Window(st[l], lens[l])>>] :
        lens \in {q \in [1..nlev -> 0..MaxPts] : SumTo(q, nlev) <= MaxPts},
        st \in [1..nlev -> starts]}

\* in plot, colorio decodes the same value v, below 0 or above 1, for every
\* channel of every pixel
PlotConvVals == {-200, 1200}

UniformDecodings(n) == {[i \in 1..n |-> [c \in 1..3 |-> v]] : v \in PlotConvVals}

PlotArgs ==
    [f : Fs,
     xminmax : {<<-3, 3>>, <<3, 3>>, <<3, -3>>},
     yminmax : {<<-3, 3>>, <<0, 0>>},
     n : {[tuple |-> TRUE, v |-> <<3, 1>>], [tuple |-> FALSE, v |-> <<1>>]},
     alpha : {-1, 1},
     colorspace : {<<"c", "a", "m", "1", "6">>, HSL, <<"r", "g", "b">>},
     contour_abs : BOOLEAN,
     contour_arg : BOOLEAN]

Init ==
    /\ pc = "entry"
    /\ args \in PlotArgs
    /\ Z = <<>>
    /\ fZ = <<>>
    /\ img = <<>>
    /\ events = <<>>
    /\ absSegs = <<>>
    /\ argSegs = <<>>
    /\ extracted = <<>>
    /\ err = "none"
    /\ scal = ScalIdle
    /\ srgb = SrgbIdle

\* lines 192-203: the assertions on the domain bounds and on n
PlotEntry ==
    /\ pc = "entry"
    /\ IF bounds_ok(args.xminmax, args.yminmax)
       THEN pc' = "grid" /\ err' = err
       ELSE pc' = "raised" /\ err' = "bounds"
    /\ UNCHANGED <<scal, srgb, args, Z, fZ, img, events, absSegs, argSegs, extracted>>

\* lines 205-206: Z = _get_z_grid(...); fZ = f(Z)
EvalGrid ==
    /\ pc = "grid"
    /\ LET grid == get_z_grid(args.xminmax, args.yminmax, grid_shape(args.n))
       IN  /\ Z' = grid
           /\ fZ' = [k \in DOMAIN grid |-> Apply(args.f, grid[k])]
    /\ events' = Append(events, "f")
    /\ pc' = "imshow"
    /\ UNCHANGED <<scal, srgb, args, img, absSegs, argSegs, extracted, err>>

\* lines 209-215: plt.imshow(get_srgb1(fZ, alpha, colorspace), ...)
Imshow ==
    /\ pc = "imshow"
    /\ \E dec \in UniformDecodings(Len(fZ)) :
          LET ret == get_srgb1(fZ, args.alpha, args.colorspace, dec)
          IN  IF ret.status = "ok"
              THEN /\ img' = ret.srgb_vals
                   /\ events' = Append(events, "imshow")
                   /\ pc' = "contour_abs"
                   /\ err' = err
              ELSE /\ pc' = "raised"
                   /\ err' = ret.status
                   /\ UNCHANGED <<img, events>>
    /\ UNCHANGED <<scal, srgb, args, Z, fZ, absSegs, argSegs, extracted>>

\* lines 220-228: the magnitude contours
ContourAbs ==
    /\ pc = "contour_abs"
    /\ IF args.contour_abs
       THEN /\ absSegs' \in Extractions(Len(abs_levels), {1})
            /\ events' = Append(events, "contour")
       ELSE UNCHANGED <<absSegs, events>>
    /\ pc' = "contour_arg"
    /\ UNCHANGED <<scal, srgb, args, Z, fZ, img, argSegs, extracted, err>>

\* lines 229-237: the phase contours; extracted keeps c.allsegs as returned
ContourArg ==
    /\ pc = "contour_arg"
    /\ IF wants_contour_arg(args)
       THEN /\ argSegs' \in Extractions(Len(levels), DOMAIN Path)
            /\ extracted' = argSegs'
            /\ events' = Append(events, "contour")
            /\ pc' = "mask"
       ELSE /\ pc' = "done"
            /\ UNCHANGED <<argSegs, extracted, events>>
    /\ UNCHANGED <<scal, srgb, args, Z, fZ, img, absSegs, err>>

\* lines 238-246: the masking loop; f is evaluated once for every segment
MaskSegments ==
    /\ pc = "mask"
    /\ argSegs' = mask_allsegs(args.f, argSegs)
    /\ events' = events \o [k \in 1..SumTo([l \in DOMAIN argSegs |-> Len(argSegs[l])],
                                           Len(argSegs)) |-> "f"]
    /\ pc' = "done"
    /\ UNCHANGED <<scal, srgb, args, Z, fZ, img, absSegs, extracted, err>>

Next == PlotEntry \/ EvalGrid \/ Imshow \/ ContourAbs \/ ContourArg \/ MaskSegments

Spec == Init /\ [][Next]_vars

(***************************************************************************)
(* Properties of the scaling (specification SpecScale).                    *)
(***************************************************************************)

\* C3: for every r > 0 and alpha > 0 the scaled magnitude of 1/r is one minus
\* the scaled magnitude of r.
C3_InversionSymmetry ==
    (scal.pc = "returned" /\ scal.alpha > 0 /\ Len(scal.r) = 2)
        => scal.absval_scaled[2] = RSub(Rat1, scal.absval_scaled[1])

C3_Witness ==
    /\ scal.pc = "returned"
    /\ scal.alpha = 2
    /\ scal.r = <<RInt(2), <<1, 2>>>>
    /\ scal.absval_scaled = <<(<<4, 5>>), (<<1, 5>>)>>

\* C8 as stated: for every accepted alpha (alpha >= 0) the scaled magnitude of
\* a zero sample is 0.
C8_ZeroScalesToZero ==
    (scal.pc = "returned" /\ scal.r[1] = Zero) => scal.absval_scaled[1] = Zero

\* C8 amended: the scaled magnitude of a zero sample is 0 for every alpha > 0,
\* and 1/2 for alpha = 0, where 0 ** 0 is 1.
C8_ZeroScalesToZeroForPositiveAlpha ==
    (scal.pc = "returned" /\ scal.r[1] = Zero)
        => scal.absval_scaled[1] = (IF scal.alpha > 0 THEN Zero ELSE Half)

C8_Witness ==
    /\ scal.pc = "returned"
    /\ scal.r[1] = Zero
    /\ scal.alpha = 2
    /\ scal.absval_scaled[1] = Zero

(***************************************************************************)
(* Properties of get_srgb1 (specifications SpecSrgb, SpecSel, SpecBicone). *)
(***************************************************************************)
Returned == srgb.pc = "returned"

Clamped(v) == IF v > 1000 THEN 1000 ELSE IF v < 0 THEN 0 ELSE v

C4_SelectorCaseInsensitive ==
    srgb.pc # "call" =>
        /\ srgb.colorspace \in Spellings(CAM16) => Returned /\ srgb.ret.branch = "CAM16"
        /\ srgb.colorspace \in Spellings(CIELAB) => Returned /\ srgb.ret.branch = "CIELAB"
        /\ srgb.colorspace \in Spellings(OKLAB) => Returned /\ srgb.ret.branch = "OKLAB"
        /\ srgb.colorspace \in Spellings(HSL) => Returned /\ srgb.ret.branch = "HSL"
        /\ srgb.colorspace \notin RecognizedSelectors =>
              /\ srgb.pc = "AssertionError"
              /\ srgb.ret.status = "colorspace"
              /\ srgb.ret.srgb_vals = <<>>

C4_Witness ==
    /\ Returned
    /\ srgb.colorspace = <<"c", "I", "e", "L", "a", "b">>
    /\ srgb.ret.branch = "CIELAB"

\* C6 as stated: in CAM16, CIELAB and OKLAB the decoded values are multiplied
\* by 1.1 before clipping; in HSL they are not multiplied.
C6_PerceptualTimes1_1 ==
    Returned =>
        \A i \in DOMAIN srgb.ret.srgb_vals : \A c \in 1..3 :
            LET out == srgb.ret.srgb_vals[i][c]
                d == srgb.ret.decoded[i][c]
            IN  IF srgb.ret.branch \in {"CAM16", "CIELAB", "OKLAB"}
                THEN out = Clamped((11 * d) \div 10)
                ELSE (0 <= d /\ d <= 1000) => out = d

\* C6 amended: only in CAM16 are the decoded values multiplied by 1.1 before
\* clipping; in CIELAB, OKLAB and HSL they are not multiplied.
C6_OnlyCam16Times1_1 ==
    Returned =>
        \A i \in DOMAIN srgb.ret.srgb_vals : \A c \in 1..3 :
            LET out == srgb.ret.srgb_vals[i][c]
                d == srgb.ret.decoded[i][c]
            IN  CASE srgb.ret.branch = "CAM16" -> out = Clamped((11 * d) \div 10)
                  [] srgb.ret.branch \in {"CIELAB", "OKLAB"} -> out = Clamped(d)
                  [] OTHER -> (0 <= d /\ d <= 1000) => out = d

C6_Witness ==
    /\ Returned
    /\ srgb.ret.branch = "CAM16"
    /\ srgb.ret.decoded[1] = <<950, 500, -200>>
    /\ srgb.ret.srgb_vals[1] = <<1000, 550, 0>>

\* C7: in the HSL branch a sample's point is (hue, 1, scaled magnitude) with
\* hue = mod(angle/(2 pi) * 360 + 120, 360), so 0 <= hue < 360, hue is 120 at
\* angle 0 and 300 at angle pi and at angle -pi.
C7_HslPoint ==
    (Returned /\ srgb.ret.branch = "HSL") =>
        \A i \in DOMAIN srgb.z :
            LET z == srgb.z[i]
                a == srgb.ret.angle[i]
                pt == srgb.ret.hsl_vals[i]
                e == IPow(IAbs(z.re) + IAbs(z.im), srgb.alpha)
            IN  /\ pt.S = <<1, 1>>
                /\ pt.L = srgb.ret.absval_scaled[i]
                /\ pt.L = RNorm(e, e + 1)
                /\ pt.H = RNorm((180 * a[1] + 120 * a[2]) % (360 * a[2]), a[2])
                /\ 0 <= pt.H[1] /\ pt.H[1] < 360 * pt.H[2]
                /\ (z.im = 0 /\ z.re > 0) => pt.H = <<120, 1>>
                /\ (z.im = 0 /\ z.re < 0) => (a \in {<<1, 1>>, <<-1, 1>>} /\ pt.H = <<300, 1>>)

C7_Witness ==
    /\ Returned
    /\ srgb.ret.branch = "HSL"
    /\ srgb.z[1] = CxNegZero(-1)
    /\ srgb.ret.angle[1] = <<-1, 1>>
    /\ srgb.ret.hsl_vals[1].H = <<300, 1>>

\* (lightnessScale, r0) of a perceptual space; 92831759/20000000 = 4.64158795
ClaimedLightnessScale(branch) ==
    IF branch = "OKLAB" THEN <<92831759, 20000000>> ELSE <<100, 1>>

ClaimedR0(branch) ==
    CASE branch = "CAM16" -> <<25, 1>>
      [] branch = "CIELAB" -> <<45, 1>>
      [] branch = "OKLAB" -> <<1, 2>>

\* C9: in each perceptual branch, for s in [0, 1], the chroma radius lies in
\* [0, r0], is 0 at s = 0 and at s = 1, is r0 at s = 1/2 and is the same at s
\* and 1 - s; the lightness is lightnessScale * s, with (100, 25), (100, 45)
\* and (4.64158795, 0.5) for CAM16, CIELAB and OKLAB.
C9_BiconeProfile ==
    srgb.pc = "mapped" =>
        LET r0 == ClaimedR0(srgb.branch)
            ls == ClaimedLightnessScale(srgb.branch)
        IN  /\ srgb.lab_pts[1].rd = srgb.lab_pts[2].rd
            /\ \A i \in 1..2 :
                  LET s == srgb.absval_scaled[i]
                      pt == srgb.lab_pts[i]
                  IN  /\ RLeq(Zero, pt.rd) /\ RLeq(pt.rd, r0)
                      /\ (s = <<0, 1>> \/ s = <<1, 1>>) => pt.rd = <<0, 1>>
                      /\ s = <<1, 2>> => pt.rd = r0
                      /\ pt.L = RNorm(ls[1] * s[1], ls[2] * s[2])

C9_Witness ==
    /\ srgb.pc = "mapped"
    /\ srgb.branch = "OKLAB"
    /\ srgb.absval_scaled = <<(<<1, 4>>), (<<3, 4>>)>>
    /\ srgb.lab_pts[1].rd = <<1, 4>>
    /\ srgb.lab_pts[2].rd = <<1, 4>>

(***************************************************************************)
(* Properties of plot (specification Spec).                                *)
(***************************************************************************)
IsDrawing(e) == e \in {"imshow", "contour"}

Drawn == \E k \in DOMAIN events : IsDrawing(events[k])

ConfigValid ==
    /\ args.xminmax[1] < args.xminmax[2]
    /\ args.yminmax[1] < args.yminmax[2]
    /\ args.alpha >= 0
    /\ args.colorspace \in RecognizedSelectors

\* the phase angle n/d (in multiples of pi) is nearer to pi or to -pi than to
\* the level ln/ld: |a - pi| < |a - level| or |a + pi| < |a - level|
NearerToCut(a, lv) ==
    \/ IAbs(a[1] - a[2]) * lv[2] < IAbs(a[1] * lv[2] - lv[1] * a[2])
    \/ IAbs(a[1] + a[2]) * lv[2] < IAbs(a[1] * lv[2] - lv[1] * a[2])

RequestedLevel(l) ==
    CASE l = 1 -> <<-1, 2>>
      [] l = 2 -> <<0, 1>>
      [] l = 3 -> <<1, 2>>

\* the phase angle of f at a point of a segment, re-evaluated
AngleAt(p) == arctan2(Apply(args.f, Cx(p.x, p.y)))

\* C2: with contour_arg, a point of a segment of a level is replaced by NaN
\* exactly when the angle a of f re-evaluated at that point satisfies
\* |a - pi| < |a - level| or |a + pi| < |a - level|; a point whose angle is the
\* level is kept, and every other point is left as extracted.
C2_MaskedIffNearerToCut ==
    (pc = "done" /\ args.contour_arg) =>
        /\ DOMAIN argSegs = 1..3
        /\ \A l \in DOMAIN argSegs :
              /\ DOMAIN argSegs[l] = DOMAIN extracted[l]
              /\ \A j \in DOMAIN argSegs[l] :
                    /\ DOMAIN argSegs[l][j] = DOMAIN extracted[l][j]
                    /\ \A k \in DOMAIN argSegs[l][j] :
                          LET p == extracted[l][j][k]
                              q == argSegs[l][j][k]
                          IN  /\ q.nan <=> NearerToCut(AngleAt(p), RequestedLevel(l))
                              /\ ~q.nan => q = p
                              /\ AngleAt(p) = RequestedLevel(l) => q = p

C2_Witness ==
    /\ pc = "done"
    /\ args.contour_arg
    /\ args.f = "id"
    /\ extracted[3] = <<(<<Pt(-1, 1), Pt(-1, 0)>>)>>
    /\ argSegs[3] = <<(<<Pt(-1, 1), NaNPt>>)>>

\* C5 as stated: a call that fails on a configuration error has neither
\* evaluated f nor issued a drawing action.
C5_ErrorsBeforeFAndDrawing ==
    pc = "raised" => events = <<>>

\* C5 amended: inverted or degenerate domain bounds fail the call at entry,
\* before f is evaluated; a negative alpha or an unrecognized colorspace fails
\* it inside get_srgb1, after f was evaluated on the grid and before any
\* drawing action; a call that issued a drawing action has a valid
\* configuration, so none issues a drawing action and then fails on a
\* configuration error.
C5_ErrorsBeforeDrawing ==
    /\ pc = "raised" =>
          /\ ~Drawn
          /\ ~ConfigValid
          /\ err = "bounds" => events = <<>>
          /\ err \in {"alpha", "colorspace"} => events = <<"f">>
    /\ Drawn => ConfigValid
    /\ (pc \notin {"entry", "raised"}) =>
          (args.xminmax[1] < args.xminmax[2] /\ args.yminmax[1] < args.yminmax[2])

C5_Witness ==
    /\ pc = "raised"
    /\ err = "colorspace"
    /\ args.alpha = 1
    /\ events = <<"f">>

NoNaN(allsegs) ==
    \A l \in DOMAIN allsegs : \A j \in DOMAIN allsegs[l] :
        \A k \in DOMAIN allsegs[l][j] : ~allsegs[l][j][k].nan

\* C10: masking changes only points of phase contour segments: it leaves the
\* magnitude contour segments, the sampled field and the colour array as they
\* are, no magnitude contour point is ever NaN, and without contour_arg no
\* segment point of any kind is NaN.
C10_MaskTouchesOnlyPhaseSegments ==
    /\ [][pc = "mask" => (absSegs' = absSegs /\ Z' = Z /\ fZ' = fZ /\ img' = img)]_vars
    /\ [](NoNaN(absSegs))
    /\ [](~args.contour_arg => NoNaN(argSegs))

C10_Witness ==
    /\ pc = "done"
    /\ args.contour_arg
    /\ args.contour_abs
    /\ absSegs[1] # <<>>
    /\ ~NoNaN(argSegs)
    /\ img # <<>>

====
